---- MODULE Spec2Model ----
(***************************************************************************)
(* Model of Common::MessageParser (src/common/MessageParser.cpp): the      *)
(* streaming deframer that turns arbitrarily chunked bytes into            *)
(* length-prefixed messages.  A byte stream made of frames is delivered to *)
(* one parser instance chunk by chunk; every ParseMessage call is one      *)
(* action that runs the whole while-loop of the method.                    *)
(***************************************************************************)
EXTENDS Integers, Sequences, FiniteSets, TLC

\* ------------------------------------------------------------------ bounds
MaxStreamLen == 24      \* bytes in the stream (headers and payloads together)

\* ------------------------------------------------------- program constants
s_headerSize == 8
MaxFrameSize == 4       \* the configured limit on messageLength
WordBytes == 4

MsgTypes == {1}         \* MessageId values carried by the frames
OobBytes == {0, 127}    \* what memory past the end of rawData may hold

VARIABLES
  frames,               \* the frames the sender encodes
  stream,               \* the bytes on the wire: the frames back to back
  pos,                  \* bytes of the stream delivered so far
  m_isHeaderSet,
  m_header,
  m_firstBuffer,
  m_secondBuffer,
  m_activeBuffer,       \* "first" or "second": which buffer the pointer names
  m_totalBytesParsed,
  messages,             \* the caller's output collection
  emitted,              \* every message ever appended, in order
  appended,             \* messages appended by the last call
  ret,                  \* return value of the last call
  alignedCalls,         \* non-empty calls so far, while every chunk lay within one
                        \* header or one payload; -1 once a chunk crossed a boundary
  oobRead,              \* the last call read past the end of its chunk
  hung,                 \* the last call never returned
  observed              \* what held at every step inside the last call

vars == <<frames, stream, pos, m_isHeaderSet, m_header, m_firstBuffer,
          m_secondBuffer, m_activeBuffer, m_totalBytesParsed, messages,
          emitted, appended, ret, alignedCalls, oobRead, hung, observed>>

\* ----------------------------------------------------------------- helpers
Min(a, b) == IF a < b THEN a ELSE b

\* std::min(a, x) over uint32_t, for 0 <= a < 2^31 and a difference x that is
\* computed in uint32_t: a negative x wraps to a value of at least 2^31, so a
\* is the smaller one
MinU32(a, x) == IF x < 0 THEN a ELSE Min(a, x)

\* ------------------------------------------------------------- wire format
\* a 4-byte unsigned integer in the byte order of the defining platform
EncodeWord(v) == [i \in 1..WordBytes |-> (v \div (256 ^ (i - 1))) % 256]

DecodeWord(b, at) ==
  b[at + 1] + 256 * b[at + 2] + 65536 * b[at + 3] + 16777216 * b[at + 4]

\* the test's memcpy(netBuffer, &s_header, sizeof(s_header))
EncodeHeader(h) == EncodeWord(h.messageType) \o EncodeWord(h.messageLength)

\* memcpy(&m_header, m_activeBuffer->GetData(), sizeof(m_header))
DecodeHeader(b) ==
  [messageType |-> DecodeWord(b, 0), messageLength |-> DecodeWord(b, WordBytes)]

\* MessageHeader::Clear(): the sentinel "unset" header
ClearedHeader == [messageType |-> 0, messageLength |-> 0]

\* payload byte j of the i-th frame of the stream (all distinct, like 'a'..'n')
PayloadByte(i, j) == 32 * i + j

FramePayload(i) == [j \in 1..frames[i].messageLength |-> PayloadByte(i, j)]

FrameBytes(i) == EncodeHeader(frames[i]) \o FramePayload(i)

FrameSize(i) == s_headerSize + frames[i].messageLength

\* the message the i-th frame stands for
FrameMessage(i) == [header |-> frames[i], messageData |-> FramePayload(i)]

RECURSIVE StreamUpTo(_)
StreamUpTo(n) == IF n = 0 THEN <<>> ELSE StreamUpTo(n - 1) \o FrameBytes(n)

\* the frames encoded back to back, with no separators
EncodedStream == StreamUpTo(Len(frames))

\* stream offset at which frame i ends (0 for i = 0)
RECURSIVE FrameEnd(_)
FrameEnd(i) == IF i = 0 THEN 0 ELSE FrameEnd(i - 1) + FrameSize(i)

StreamLen == Len(stream)

\* ------------------------------------------------------- MessageBuffer
\* MessageBuffer::SetData(src, count): append count bytes at the current size
SetData(buf, bytes) == buf \o bytes

GetSize(buf) == Len(buf)

ClearData(buf) == <<>>

\* rawData[off .. off+n): bytes past the end of the chunk are whatever memory
\* holds there (oob)
RawBytes(rawData, off, n, oob) ==
  [k \in 1..n |-> IF off + k <= Len(rawData) THEN rawData[off + k] ELSE oob]


\* ------------------------------------------------------- one call's state
\* The fields of the parser plus the locals of ParseMessage while it runs.
Active(s) == IF s.active = "first" THEN s.first ELSE s.second

\* m_activeBuffer->SetData(rawData + off, n); reads keeps the offset and count of
\* every read of the call, oobRead whether one of them left the chunk
ActiveSetData(s, off, n) ==
  LET bytes == RawBytes(s.rawData, off, n, s.oob)
      s1 == IF s.active = "first"
            THEN [s EXCEPT !.first = SetData(@, bytes)]
            ELSE [s EXCEPT !.second = SetData(@, bytes)]
  IN [s1 EXCEPT !.oobRead = @ \/ (n > 0 /\ off + n > s.size),
                !.reads = Append(@, <<off, n>>)]

\* a swap that leaves the pointer where it was
SwapTargetSame(active) == active

\* m_activeBuffer = &m_secondBuffer / m_activeBuffer = &m_firstBuffer
SwapTarget(active) == IF active = "first" THEN "second" ELSE "first"

\* a swap that keeps the bytes of the buffer it leaves
KeepVacated(s, left) == s

\* m_firstBuffer.ClearData() / m_secondBuffer.ClearData() for the buffer left
ClearVacated(s, left) ==
  IF left = "first"
  THEN [s EXCEPT !.first = ClearData(@)]
  ELSE [s EXCEPT !.second = ClearData(@)]

SwapBuffer(s) == ClearVacated([s EXCEPT !.active = SwapTarget(@)], s.active)

\* a header copy that forgets the bytes the header buffer already holds
HeaderBytesAnew(size, total, startSize) == MinU32(size - total, s_headerSize)

\* std::min(size - m_totalBytesParsed, s_headerSize - startSize)
HeaderBytesToCopy(size, total, startSize) ==
  MinU32(size - total, s_headerSize - startSize)

\* m_totalBytesParsed += m_activeBuffer->GetSize()
ParsedAfterHeaderCopy(total, bufSize) == total + bufSize

\* headerOffset = (s_headerSize - startSize) + messageOffset
HeaderOffsetAfter(startSize, messageOffset) ==
  (s_headerSize - startSize) + messageOffset

\* a payload step that copies nothing
SizeOfNothing(size, messageLength, bufSize) == 0

\* std::min(size, m_header.messageLength - m_activeBuffer->GetSize())
SizeToCopy(size, messageLength, bufSize) ==
  MinU32(size, messageLength - bufSize)

\* a next-header offset that forgets where the payload read started
MessageOffsetFromZero(sizeToCopy, headerOffset) == sizeToCopy

\* messageOffset = sizeToCopy + headerOffset
MessageOffsetAfter(sizeToCopy, headerOffset) == sizeToCopy + headerOffset

\* a message built from the header alone, its payload never filled in
NetworkMessageBare(header, data) == [header |-> header, messageData |-> <<>>]

\* NetworkMessage msg(m_header); msg.messageData.SetData(data, messageLength)
NetworkMessage(header, data) ==
  [header |-> header, messageData |-> SubSeq(data, 1, header.messageLength)]

\* a parser that inserted at the front instead
PushFront(msgs, msg) == <<msg>> \o msgs

\* messages.push_back(std::move(msg))
PushBack(msgs, msg) == Append(msgs, msg)

\* a parser that forgot to reset the per-call cursor
CursorKept(total) == total

\* m_totalBytesParsed = 0 at the end of the call
CursorAfterCall(total) == 0

\* return !messages.empty()
HasMessages(msgs) == msgs # <<>>

\* the buffer the pointer does not name
Inactive(s) == IF s.active = "first" THEN s.second ELSE s.first

\* What one executed block of the loop did: the parser before it (b), right
\* after its SetData (m) and after it (a), and the read it made.
Step(phase, b, m, a, off, n) ==
  [phase |-> phase, iter |-> b.iterations, off |-> off, n |-> n,
   wasHeaderSet |-> b.isHeaderSet, isHeaderSet |-> a.isHeaderSet,
   wasLength |-> b.header.messageLength, header |-> a.header,
   filled |-> GetSize(Active(m)), idle |-> GetSize(Inactive(m)),
   active |-> a.active, activeSize |-> GetSize(Active(a)),
   inactiveSize |-> GetSize(Inactive(a)),
   totalBefore |-> b.total, total |-> a.total,
   completed |-> Len(a.messages) - Len(b.messages),
   last |-> IF a.messages = <<>> THEN <<>> ELSE <<a.messages[Len(a.messages)]>>]

Logged(phase, b, m, a, off, n) ==
  [a EXCEPT !.steps = Append(@, Step(phase, b, m, a, off, n))]

\* the "if (!m_isHeaderSet)" block
HeaderPhase(s) ==
  IF s.isHeaderSet THEN s
  ELSE
    LET startSize == GetSize(Active(s))
        n == HeaderBytesToCopy(s.size, s.total, startSize)
        s1 == ActiveSetData(s, s.messageOffset, n)
        s2 == [s1 EXCEPT !.total = ParsedAfterHeaderCopy(@, GetSize(Active(s1)))]
        s3 == IF GetSize(Active(s2)) = s_headerSize
              THEN SwapBuffer([s2 EXCEPT
                     !.header = DecodeHeader(Active(s2)),
                     !.isHeaderSet = TRUE,
                     !.headerOffset = HeaderOffsetAfter(startSize, s.messageOffset)])
              ELSE s2
    IN Logged("header", s, s2, s3, s.messageOffset, n)

\* the "if (m_isHeaderSet && m_totalBytesParsed < size)" block
PayloadPhase(s) ==
  IF ~(s.isHeaderSet /\ s.total < s.size) THEN s
  ELSE
    LET sizeToCopy == SizeToCopy(s.size, s.header.messageLength, GetSize(Active(s)))
        s1 == [ActiveSetData(s, s.headerOffset, sizeToCopy) EXCEPT
                 !.messageOffset = MessageOffsetAfter(sizeToCopy, s.headerOffset),
                 !.total = @ + sizeToCopy]
        s2 == IF GetSize(Active(s1)) = s1.header.messageLength
              THEN SwapBuffer([s1 EXCEPT
                     !.messages = PushBack(@, NetworkMessage(s1.header, Active(s1))),
                     !.isHeaderSet = FALSE,
                     !.header = ClearedHeader])
              ELSE s1
    IN Logged("payload", s, s1, s2, s.headerOffset, sizeToCopy)

\* everything the next iteration of the loop depends on
ProgramState(s) ==
  <<s.isHeaderSet, s.header, s.first, s.second, s.active, s.total,
    s.headerOffset, s.messageOffset, Len(s.messages)>>

\* while (m_totalBytesParsed < size) { ... }: an iteration that changes nothing
\* would repeat forever; the call then never returns (hung)
RECURSIVE ParseLoop(_)
ParseLoop(s) ==
  IF s.total < s.size
  THEN LET t == PayloadPhase(HeaderPhase(s))
       IN IF ProgramState(t) = ProgramState(s)
          THEN [t EXCEPT !.hung = TRUE]
          ELSE ParseLoop([t EXCEPT !.iterations = @ + 1])
  ELSE s

\* the state ParseMessage starts from, given the parser's fields
Entry(rawData, oob, isHeaderSet, header, first, second, active, total, msgs) ==
  [rawData |-> rawData, size |-> Len(rawData), oob |-> oob,
   isHeaderSet |-> isHeaderSet, header |-> header,
   first |-> first, second |-> second, active |-> active, total |-> total,
   headerOffset |-> 0, messageOffset |-> 0,
   messages |-> msgs, oobRead |-> FALSE, reads |-> <<>>,
   steps |-> <<>>, iterations |-> 0, hung |-> FALSE]

\* the state of a call on a freshly constructed parser
FreshEntry(rawData, oob) ==
  Entry(rawData, oob, FALSE, ClearedHeader, <<>>, <<>>, "first", 0, <<>>)

\* ------------------------------------------------------------ the stream
\* every sequence of frames whose encoding fits in budget bytes
RECURSIVE FrameSeqsWithin(_)
FrameSeqsWithin(budget) ==
  {<<>>} \cup
  UNION {{<<f>> \o rest : rest \in FrameSeqsWithin(budget - s_headerSize - f.messageLength)} :
         f \in [messageType : MsgTypes, messageLength : 0..(budget - s_headerSize)]}

FrameSeqs == FrameSeqsWithin(MaxStreamLen) \ {<<>>}

\* stream offsets at which a header ends or a frame ends
Boundaries ==
  {FrameEnd(i) : i \in 0..Len(frames)} \cup
  {FrameEnd(i - 1) + s_headerSize : i \in 1..Len(frames)}

\* the chunk [from, to) lies within one header or within one payload
WithinOnePhase(from, to) == \A b \in Boundaries : ~(from < b /\ b < to)

\* ---------------------------------------------------------------- actions
\* The constructor names the first buffer as the active one; the other fields
\* --------------------------------------------- what a call's steps show
\* the buffer the pointer does not name is empty, before and after the swap
InactiveEmptyAt(st) == st.idle = 0 /\ st.inactiveSize = 0

\* chunk bytes appended by the steps before step k
RECURSIVE AppendedBefore(_, _)
AppendedBefore(steps, k) ==
  IF k <= 1 THEN 0 ELSE AppendedBefore(steps, k - 1) + steps[k - 1].n

\* each read starts where the reads before it ended
ReadsInOrder(steps) ==
  \A k \in 1..Len(steps) : steps[k].off = AppendedBefore(steps, k)

\* the header buffer stays within 8 bytes and the payload buffer within
\* messageLength; a header is decoded from exactly 8 bytes
BuffersBoundedAt(st) ==
  /\ st.phase = "header" => st.filled <= s_headerSize
  /\ (st.phase = "header" /\ st.isHeaderSet) => st.filled = s_headerSize
  /\ st.phase = "payload" => st.filled <= st.wasLength
  /\ ~st.isHeaderSet => st.activeSize < s_headerSize
  /\ st.isHeaderSet => st.activeSize <= st.header.messageLength

\* iteration i of the loop advanced the cursor or completed a message
IterationProgressed(steps, i) ==
  \E k \in 1..Len(steps) :
    /\ steps[k].iter = i
    /\ (steps[k].total > steps[k].totalBefore \/ steps[k].completed > 0)

\* a message is built in the payload block, from a set header and a buffer of
\* exactly messageLength bytes, and the header is reset right after
EmittedWholeAt(st) ==
  st.completed # 0 =>
    /\ st.completed = 1
    /\ st.phase = "payload"
    /\ st.wasHeaderSet
    /\ st.filled = st.wasLength
    /\ st.last[1].header.messageLength = st.wasLength
    /\ Len(st.last[1].messageData) = st.wasLength
    /\ ~st.isHeaderSet
    /\ st.header = ClearedHeader

\* the first buffer collects headers, the second payloads
RolesAt(st) == (st.active = "first") <=> ~st.isHeaderSet

Observe(s) ==
  [inactiveEmpty |-> \A k \in 1..Len(s.steps) : InactiveEmptyAt(s.steps[k]),
   readsInOrder |-> ReadsInOrder(s.steps),
   bounded |-> \A k \in 1..Len(s.steps) : BuffersBoundedAt(s.steps[k]),
   progressed |-> \A i \in 0..(s.iterations - 1) : IterationProgressed(s.steps, i),
   emittedWhole |-> \A k \in 1..Len(s.steps) : EmittedWholeAt(s.steps[k]),
   roles |-> \A k \in 1..Len(s.steps) : RolesAt(s.steps[k])]

NothingObserved ==
  [inactiveEmpty |-> TRUE, readsInOrder |-> TRUE, bounded |-> TRUE,
   progressed |-> TRUE, emittedWhole |-> TRUE, roles |-> TRUE]

\* start as the data model says: no header pending, both buffers empty, the
\* cursor at 0.  The caller starts with an empty collection.
Init ==
  /\ frames \in FrameSeqs
  /\ stream = EncodedStream
  /\ pos = 0
  /\ m_isHeaderSet = FALSE
  /\ m_header = ClearedHeader
  /\ m_firstBuffer = <<>>
  /\ m_secondBuffer = <<>>
  /\ m_activeBuffer = "first"
  /\ m_totalBytesParsed = 0
  /\ messages = <<>>
  /\ emitted = <<>>
  /\ appended = 0
  /\ ret = FALSE
  /\ alignedCalls = 0
  /\ oobRead = FALSE
  /\ hung = FALSE
  /\ observed = NothingObserved

\* the loop of a call on the next n bytes of the stream, as it exits
CallOf(n, oob) ==
  ParseLoop(Entry(SubSeq(stream, pos + 1, pos + n), oob, m_isHeaderSet, m_header,
                  m_firstBuffer, m_secondBuffer, m_activeBuffer,
                  m_totalBytesParsed, messages))

\* bool ParseMessage(rawData, size, messages) on the next n bytes of the stream
ParseMessage(n, oob) ==
  LET s == CallOf(n, oob)
      new == SubSeq(s.messages, Len(messages) + 1, Len(s.messages))
  IN \* memory past the chunk matters only to a call that reads it
     /\ (s.oobRead \/ oob = 0)
     /\ pos' = pos + n
     /\ m_isHeaderSet' = s.isHeaderSet
     /\ m_header' = s.header
     /\ m_firstBuffer' = s.first
     /\ m_secondBuffer' = s.second
     /\ m_activeBuffer' = s.active
     /\ m_totalBytesParsed' = CursorAfterCall(s.total)
     /\ messages' = s.messages
     /\ emitted' = emitted \o new
     /\ appended' = Len(s.messages) - Len(messages)
     /\ ret' = HasMessages(s.messages)
     /\ alignedCalls' = IF alignedCalls >= 0 /\ WithinOnePhase(pos, pos + n)
                        THEN alignedCalls + (IF n > 0 THEN 1 ELSE 0)
                        ELSE -1
     /\ oobRead' = s.oobRead
     /\ hung' = s.hung
     /\ observed' = Observe(s)
     /\ UNCHANGED <<frames, stream>>

\* the caller consumes the collection (messages.clear() in the tests)
ClearMessages ==
  /\ messages # <<>>
  /\ messages' = <<>>
  /\ UNCHANGED <<frames, stream, pos, m_isHeaderSet, m_header, m_firstBuffer,
                 m_secondBuffer, m_activeBuffer, m_totalBytesParsed, emitted,
                 appended, ret, alignedCalls, oobRead, hung, observed>>

Next ==
  \/ \E n \in 0..(StreamLen - pos), oob \in OobBytes : ParseMessage(n, oob)
  \/ ClearMessages

Spec == Init /\ [][Next]_vars

\* ------------------------------------------------------- claim vocabulary
IsPrefix(a, b) == Len(a) <= Len(b) /\ SubSeq(b, 1, Len(a)) = a

\* the messages of frames from..to, in stream order
FrameMessages(from, to) == [k \in 1..(to - from + 1) |-> FrameMessage(from + k - 1)]

AtFrameBoundary == \E i \in 0..Len(frames) : pos = FrameEnd(i)

\* the state the constructor leaves
EngineFresh ==
  /\ m_isHeaderSet = FALSE
  /\ m_header = ClearedHeader
  /\ m_firstBuffer = <<>>
  /\ m_secondBuffer = <<>>
  /\ m_activeBuffer = "first"
  /\ m_totalBytesParsed = 0

\* the parser holds exactly the first part of frame i's payload, up to pos
InPayloadOf(i) ==
  /\ m_isHeaderSet
  /\ m_header = frames[i]
  /\ m_activeBuffer = "second"
  /\ m_firstBuffer = <<>>
  /\ pos >= FrameEnd(i - 1) + s_headerSize
  /\ pos < FrameEnd(i)
  /\ m_secondBuffer = SubSeq(FramePayload(i), 1, pos - FrameEnd(i - 1) - s_headerSize)

\* the parser holds exactly the first h bytes of frame i's header
InHeaderOf(i, h) ==
  /\ ~m_isHeaderSet
  /\ m_activeBuffer = "first"
  /\ m_secondBuffer = <<>>
  /\ pos = FrameEnd(i - 1) + h
  /\ m_firstBuffer = SubSeq(EncodeHeader(frames[i]), 1, h)

\* every call so far carried bytes of one header only or of one payload only
PhaseAligned == alignedCalls >= 0

\* what one call on a fresh parser appends when given all of frame 1
WholeFrameInOneCall == ParseLoop(FreshEntry(FrameBytes(1), 0)).messages

\* ------------------------------------------------------------------ claims

\* C1: chunk-invariance: once the whole stream has been delivered, in whatever
\* chunks, the messages appended over all calls are exactly the frames, in order.
C1_ChunkInvariance ==
  pos = StreamLen => emitted = FrameMessages(1, Len(frames))

\* C2: a ParseMessage call (here: every call with a non-empty chunk) returns
\* true iff at least one message was completed during that call, whatever the
\* output collection held before.
C2_ReturnIffCompleted ==
  [][pos' > pos => (ret' <=> (appended' > 0))]_vars

\* C3: no premature emission: while the bytes delivered are a proper prefix of
\* the first frame, nothing has been appended and every call returned false.
C3_NoPrematureEmission ==
  pos < FrameSize(1) => (emitted = <<>> /\ ret = FALSE)

\* C4: a frame with messageLength = 0 is emitted, with an empty payload, by the
\* call that consumes its 8th header byte.
C4_ZeroLengthEmitted ==
  (frames[1].messageLength = 0 /\ pos >= s_headerSize)
    => (emitted # <<>> /\ emitted[1] = FrameMessage(1))

\* C5: cross-call carryover: a frame with a non-empty payload delivered as calls
\* of header bytes only followed by calls of payload bytes only yields nothing
\* before the last payload byte is delivered, and exactly one message once it
\* is, identical to what one call with the whole frame appends.
C5_CrossCallCarryover ==
  (PhaseAligned /\ frames[1].messageLength >= 1) =>
    /\ pos < FrameSize(1) => emitted = <<>>
    /\ pos = FrameSize(1) =>
         /\ Len(emitted) = 1
         /\ emitted = WholeFrameInOneCall

\* the frame arrived one byte per call
C5_Witness ==
  /\ alignedCalls = FrameSize(1)
  /\ frames[1].messageLength >= 2
  /\ pos = FrameSize(1)
  /\ appended = 1
  /\ emitted = <<FrameMessage(1)>>

\* C6: mixed-boundary chunk: with k >= 1 payload bytes of frame i missing, one
\* call carrying those k bytes and then the complete frames i+1..j appends the
\* messages of frames i..j in order and leaves no partial state.
C6_MixedBoundary ==
  [][\A i \in 1..Len(frames) : \A j \in (i + 1)..Len(frames) :
       (InPayloadOf(i) /\ pos' = FrameEnd(j)) =>
         /\ messages' = messages \o FrameMessages(i, j)
         /\ EngineFresh']_vars

\* C7: partial trailing header, for frames with non-empty payloads: after a
\* call that emitted a message and retained the first h bytes (1 <= h < 8) of
\* the next header, a call with the remaining 8 - h header bytes and the
\* complete payload appends that frame's message.
C7_PartialTrailingHeader ==
  [][\A i \in 2..Len(frames) : \A h \in 1..(s_headerSize - 1) :
       (/\ InHeaderOf(i, h)
        /\ appended >= 1
        /\ frames[i - 1].messageLength >= 1
        /\ frames[i].messageLength >= 1
        /\ pos' = FrameEnd(i)) =>
         messages' = Append(messages, FrameMessage(i))]_vars

\* C8: bulk: one call on a fresh parser whose chunk is the first N complete
\* frames appends exactly the N messages of those frames.
C8_Bulk ==
  [][\A n \in 1..Len(frames) :
       (pos = 0 /\ EngineFresh /\ messages = <<>> /\ pos' = FrameEnd(n)) =>
         (messages' = FrameMessages(1, n) /\ appended' = n)]_vars

\* C9: idempotent engine state: whenever the bytes delivered end exactly on a
\* frame boundary, the parser is in its freshly constructed state.
C9_FreshAtBoundary == AtFrameBoundary => EngineFresh

\* a message that is some frame's message comes from the first such frame
FrameOf(m) == CHOOSE i \in 1..Len(frames) : FrameMessage(i) = m

IsFrameMessage(m) == \E i \in 1..Len(frames) : FrameMessage(i) = m

InStreamOrder(msgs) ==
  \A a, b \in 1..Len(msgs) :
    (a < b /\ IsFrameMessage(msgs[a]) /\ IsFrameMessage(msgs[b]))
      => FrameOf(msgs[a]) <= FrameOf(msgs[b])

\* C10: a call only appends: the collection's content before the call is a
\* prefix of its content after it, followed by the messages completed in the
\* call in the order of their frames in the stream.
C10_AppendOnly ==
  [][(pos' # pos \/ messages' # <<>>) =>
       /\ IsPrefix(messages, messages')
       /\ Len(messages') = Len(messages) + appended'
       /\ InStreamOrder(SubSeq(messages', Len(messages) + 1, Len(messages')))]_vars

C10_Witness ==
  /\ appended >= 1
  /\ Len(messages) > appended
  /\ messages = FrameMessages(1, Len(messages))

\* C11: a decoded header whose messageLength exceeds the maximum frame size is
\* rejected: the parser accumulates no payload for that frame and no message
\* longer than the maximum is ever delivered.  Stated for deliveries in which
\* every chunk lies within one header or one payload, where the parser decodes
\* exactly the headers that were sent.
C11_OversizeRejected ==
  PhaseAligned =>
    /\ (m_isHeaderSet /\ m_header.messageLength > MaxFrameSize) => m_secondBuffer = <<>>
    /\ \A k \in 1..Len(emitted) : Len(emitted[k].messageData) <= MaxFrameSize

\* C12: exactly one of the two buffers is active and the other one is empty, at
\* every step of every call and between calls; SwapBuffer makes the other
\* buffer the active one and leaves the vacated buffer empty.
C12_DoubleBuffer ==
  LET s == [first |-> m_firstBuffer, second |-> m_secondBuffer,
            active |-> m_activeBuffer]
      t == SwapBuffer(s)
  IN /\ m_activeBuffer \in {"first", "second"}
     /\ Inactive(s) = <<>>
     /\ observed.inactiveEmpty
     /\ t.active \in {"first", "second"} \ {s.active}
     /\ Active(t) = Inactive(s)
     /\ Inactive(t) = <<>>

\* a payload is being collected in the second buffer after at least one
\* earlier frame went through both swaps
C12_Witness ==
  /\ m_activeBuffer = "second"
  /\ m_secondBuffer # <<>>
  /\ m_firstBuffer = <<>>
  /\ emitted # <<>>

\* C13: a payload step appends no more bytes than the chunk still holds, so no
\* call reads a byte outside indices 0..size-1 of its chunk.
C13_PayloadClamp == oobRead = FALSE

\* the transition is the call on the next pos' - pos bytes that exits as s
IsCall(s) ==
  /\ pos' >= pos
  /\ m_firstBuffer' = s.first
  /\ m_secondBuffer' = s.second
  /\ messages' = s.messages
  /\ oobRead' = s.oobRead

\* C14: after every step of a call the cursor equals the number of bytes of
\* this chunk appended so far, header bytes carried over from earlier calls
\* not counted, and when the loop exits the cursor equals size.  Stated for
\* deliveries in which every chunk lies within one header or one payload, where
\* no read leaves the chunk.
C14_CursorAccounting ==
  [][\A oob \in OobBytes :
       LET s == CallOf(pos' - pos, oob)
       IN (IsCall(s) /\ alignedCalls' >= 0) =>
            /\ \A k \in 1..Len(s.steps) :
                 s.steps[k].total = AppendedBefore(s.steps, k + 1)
            /\ s.total = s.size]_vars
\* C15: within a call every read starts at the chunk index where the previous
\* read ended, the first one at index 0: a header read starts after the chunk
\* bytes already appended in this call, a payload read right after the last
\* header byte consumed in this call or at 0 when the header was completed in
\* an earlier call.  No two reads overlap and none skips a byte between them.
C15_ReadOffsets == observed.readsInOrder

\* one call read the end of a payload, a whole frame and the start of another
\* frame without leaving its chunk
C15_Witness ==
  /\ appended >= 2
  /\ m_firstBuffer # <<>>
  /\ ~oobRead
  /\ observed.readsInOrder

\* C16: while no header is set the active buffer holds fewer than 8 bytes
\* between steps and never more than 8; while a header is set the active buffer
\* never holds more than messageLength bytes; a header is decoded only from a
\* buffer of exactly 8 bytes.
C16_BufferBounds ==
  /\ ~m_isHeaderSet => Len(m_firstBuffer) < s_headerSize /\ Len(m_secondBuffer) < s_headerSize
  /\ m_isHeaderSet => Len(m_firstBuffer) <= m_header.messageLength
                       /\ Len(m_secondBuffer) <= m_header.messageLength
  /\ observed.bounded

\* a header was completed from bytes of several calls and its payload is one
\* byte short of complete
C16_Witness ==
  /\ m_isHeaderSet
  /\ alignedCalls >= 3
  /\ m_header.messageLength >= 2
  /\ Len(m_secondBuffer) = m_header.messageLength - 1

\* C17: every call returns: no iteration of the loop leaves the parser as it
\* found it, and every iteration advances the cursor or completes a message;
\* chunks of size 0 and zero-length frames included.
C17_Terminates == hung = FALSE /\ observed.progressed

\* a call went through a zero-length frame and a frame with payload and returned
C17_Witness ==
  /\ appended >= 2
  /\ \E k \in 1..Len(emitted) : emitted[k].header.messageLength = 0
  /\ \E k \in 1..Len(emitted) : emitted[k].header.messageLength > 0
  /\ ~hung

\* C18: every message appended carries a payload of exactly as many bytes as
\* its header's messageLength; it is built only while a header is set and the
\* payload buffer holds exactly messageLength bytes, and right after the append
\* no header is set and the header fields are cleared.
C18_WholeMessages ==
  /\ \A k \in 1..Len(emitted) :
       Len(emitted[k].messageData) = emitted[k].header.messageLength
  /\ observed.emittedWhole

\* the last call appended one message with a payload and left the header cleared
C18_Witness ==
  /\ appended = 1
  /\ Len(emitted[Len(emitted)].messageData) >= 2
  /\ ~m_isHeaderSet
  /\ m_header = ClearedHeader

\* C19: at every step of every call and between calls, the first buffer is the
\* active one exactly when no header is set, the second exactly when one is.
C19_BufferRoles ==
  /\ (m_activeBuffer = "first") <=> ~m_isHeaderSet
  /\ (m_activeBuffer = "second") <=> m_isHeaderSet
  /\ observed.roles

\* a header has just been decoded: the payload buffer is active and still empty
C19_Witness ==
  /\ m_isHeaderSet
  /\ m_header.messageLength > 0
  /\ m_activeBuffer = "second"
  /\ m_secondBuffer = <<>>
====
